---- MODULE Spec2Model ----
(***************************************************************************)
(* Model of internal/provider/data_source_agent_helm_config.go:            *)
(* the agent Helm config data source (dataSourceAgentHelmConfigRead) and   *)
(* the renderer generateHelmConfig.                                        *)
(*                                                                         *)
(* A Go string is a sequence of one-character strings.  The literal pieces *)
(* of a format string are kept as single tokens, its verbs ("%s", "%q",    *)
(* "%+v", "%v") as tokens of their own, so that a formatted text is a      *)
(* sequence of literal tokens and argument characters.                     *)
(***************************************************************************)
EXTENDS Integers, Sequences, FiniteSets, TLC

\* ------------------------------------------------------------------ bounds
\* Largest number of retry-join addresses of a renderer input.
MaxJoin == 2
\* Largest length of one retry-join address of a renderer input.
MaxAddrLen == 2

\* ----------------------------------------------------------------- strings
Nil == <<>>

Uppers == <<"A","B","C","D","E","F","G","H","I","J","K","L","M",
            "N","O","P","Q","R","S","T","U","V","W","X","Y","Z">>
Lowers == <<"a","b","c","d","e","f","g","h","i","j","k","l","m",
            "n","o","p","q","r","s","t","u","v","w","x","y","z">>

\* strings.ToLower on one character.
ToLowerChar(c) ==
  IF \E i \in DOMAIN Uppers : Uppers[i] = c
    THEN Lowers[CHOOSE i \in DOMAIN Uppers : Uppers[i] = c]
    ELSE c

\* strings.ToLower
ToLower(s) == [i \in DOMAIN s |-> ToLowerChar(s[i])]

\* strconv.Quote on one character: backslash and double quote are escaped.
QuoteChar(c) ==
  IF c = "\"" THEN <<"\\", "\"">>
  ELSE IF c = "\\" THEN <<"\\", "\\">>
  ELSE <<c>>

RECURSIVE QuoteBody(_)
QuoteBody(s) ==
  IF s = <<>> THEN <<>> ELSE QuoteChar(Head(s)) \o QuoteBody(Tail(s))

\* strconv.Quote: what the verb %q prints for a string.
Quote(s) == <<"\"">> \o QuoteBody(s) \o <<"\"">>

RECURSIVE QuoteElems(_)
QuoteElems(list) ==
  IF list = <<>> THEN <<>>
  ELSE IF Len(list) = 1 THEN Quote(list[1])
  ELSE Quote(Head(list)) \o <<" ">> \o QuoteElems(Tail(list))

\* fmt.Sprintf("%q", []string): the elements quoted, separated by one
\* space, between brackets.
SprintfQSlice(list) == <<"[">> \o QuoteElems(list) \o <<"]">>

\* strings.Replace(s, old, new, -1) for one-character old and new.
ReplaceAll(s, old, new) == [i \in DOMAIN s |-> IF s[i] = old THEN new ELSE s[i]]

Verbs == {"%s", "%q", "%+v", "%v"}

\* What one verb prints for a string (or error text) argument.
FormatArg(verb, arg) == IF verb = "%q" THEN Quote(arg) ELSE arg

\* fmt.Sprintf(format, args...) for string arguments.
RECURSIVE Sprintf(_, _)
Sprintf(format, args) ==
  IF format = <<>> THEN <<>>
  ELSE IF Head(format) \in Verbs
    THEN IF args = <<>>
           THEN <<"%!", Head(format), "(MISSING)">> \o Sprintf(Tail(format), args)
           ELSE FormatArg(Head(format), Head(args)) \o Sprintf(Tail(format), Tail(args))
  ELSE <<Head(format)>> \o Sprintf(Tail(format), args)

\* --------------------------------------------------------------- renderer
\* The literal pieces of helmConfigTemplate, in order.
TplDatacenter == "global:\n  enabled: false\n  name: consul\n  datacenter: "
TplBootstrap == "\n  acls:\n    manageSystemACLs: true\n    bootstrapToken:\n      secretName: "
TplGossip == "-bootstrap-token\n      secretKey: token\n  gossipEncryption:\n    secretName: "
TplCaCert == "-hcs\n    secretKey: gossipEncryptionKey\n  tls:\n    enabled: true\n    enableAutoEncrypt: true\n    caCert:\n      secretName: "
TplHosts == "-hcs\n      secretKey: caCert\nexternalServers:\n  enabled: true\n  hosts: "
TplK8sHost == "\n  httpsPort: 443\n  useSystemRoots: true\n  k8sAuthMethodHost: https://"
TplJoin == ":443\nclient:\n  enabled: true\n  # If you are using Kubenet in your AKS cluster (the default network),\n  # uncomment the line below.\n  # exposeGossipPorts: true\n  join: "
TplEnd == "\nconnectInject:\n  enabled: true"

helmConfigTemplate ==
  << TplDatacenter, "%s", TplBootstrap, "%s", TplGossip, "%s", TplCaCert, "%s",
     TplHosts, "%s", TplK8sHost, "%s", TplJoin, "%s", TplEnd >>

\* A slip of the argument order: the datacenter lands in the caCert secret.
generateHelmConfig_WrongPrefix(name, datacenter, fqdn, retryJoin) ==
  LET lower == ToLower(name)
      rj == ReplaceAll(SprintfQSlice(retryJoin), "\"", "'")
  IN Sprintf(helmConfigTemplate, <<datacenter, lower, lower, datacenter, rj, fqdn, rj>>)

generateHelmConfig(name, datacenter, fqdn, retryJoin) ==
  LET lower == ToLower(name)
      rj0 == SprintfQSlice(retryJoin)
      rj == ReplaceAll(rj0, "\"", "'")
  IN Sprintf(helmConfigTemplate, <<datacenter, lower, lower, lower, rj, fqdn, rj>>)

\* ------------------------------------------------------------ JSON payload
\* A JSON text after lexing: a value tree, or a text that is not JSON.
JInvalid == [t |-> "invalid"]
JNull == [t |-> "null"]
JNum == [t |-> "num"]
JStr(s) == [t |-> "str", s |-> s]
JArr(es) == [t |-> "arr", elems |-> es]
JObj(ms) == [t |-> "obj", members |-> ms]

KeyDatacenter == <<"d","a","t","a","c","e","n","t","e","r">>
KeyRetryJoin == <<"r","e","t","r","y","_","j","o","i","n">>

ZeroConsulConfig == [Datacenter |-> Nil, RetryJoin |-> <<>>]

\* encoding/json matches an object key to a struct field ignoring case.
KeyMatches(key, field) == ToLower(key) = ToLower(field)

\* A JSON value decoded into a Go string: null leaves the field alone,
\* anything but a string is an UnmarshalTypeError.
DecodeString(v, cur) ==
  IF v.t = "str" THEN [ok |-> TRUE, val |-> v.s]
  ELSE IF v.t = "null" THEN [ok |-> TRUE, val |-> cur]
  ELSE [ok |-> FALSE, val |-> cur]

RECURSIVE DecodeElems(_)
DecodeElems(es) ==
  IF es = <<>> THEN [ok |-> TRUE, val |-> <<>>]
  ELSE LET e == DecodeString(Head(es), Nil)
           rest == DecodeElems(Tail(es))
       IN [ok |-> e.ok /\ rest.ok, val |-> <<e.val>> \o rest.val]

\* A JSON value decoded into a Go []string.
DecodeSlice(v, cur) ==
  IF v.t = "arr" THEN DecodeElems(v.elems)
  ELSE IF v.t = "null" THEN [ok |-> TRUE, val |-> cur]
  ELSE [ok |-> FALSE, val |-> cur]

\* The members of a JSON object decoded into a ConsulConfig, in order:
\* unknown keys are skipped, a repeated key overwrites.
RECURSIVE DecodeMembers(_, _)
DecodeMembers(ms, acc) ==
  IF ms = <<>> THEN acc
  ELSE LET m == Head(ms)
           next ==
             IF KeyMatches(m.k, KeyDatacenter)
               THEN LET x == DecodeString(m.v, acc.cfg.Datacenter)
                    IN [ok |-> acc.ok /\ x.ok,
                        cfg |-> [acc.cfg EXCEPT !.Datacenter = x.val]]
             ELSE IF KeyMatches(m.k, KeyRetryJoin)
               THEN LET x == DecodeSlice(m.v, acc.cfg.RetryJoin)
                    IN [ok |-> acc.ok /\ x.ok,
                        cfg |-> [acc.cfg EXCEPT !.RetryJoin = x.val]]
             ELSE acc
       IN DecodeMembers(Tail(ms), next)

ErrJSONSyntax == <<"s","y","n","t","a","x">>
ErrJSONType == <<"t","y","p","e">>

\* json.Unmarshal([]byte(text), &consulConfig)
Unmarshal(doc) ==
  IF doc.t = "invalid" THEN [err |-> ErrJSONSyntax, cfg |-> ZeroConsulConfig]
  ELSE IF doc.t = "null" THEN [err |-> Nil, cfg |-> ZeroConsulConfig]
  ELSE IF doc.t = "obj"
    THEN LET res == DecodeMembers(doc.members, [ok |-> TRUE, cfg |-> ZeroConsulConfig])
         IN IF res.ok THEN [err |-> Nil, cfg |-> res.cfg]
            ELSE [err |-> ErrJSONType, cfg |-> res.cfg]
  ELSE [err |-> ErrJSONType, cfg |-> ZeroConsulConfig]

\* ------------------------------------------------- the read's environment
Dc1 == <<"d","c","1">>
Dc2 == <<"d","c","2">>
Addr1 == <<"1",".","1">>
Addr2 == <<"2",".","2">>

\* The config payloads the custom resource provider may return.
Payloads ==
  << JInvalid,
     JNull,
     JObj(<<>>),
     JObj(<< [k |-> KeyDatacenter, v |-> JStr(Dc1)],
             [k |-> KeyRetryJoin, v |-> JArr(<<JStr(Addr1), JStr(Addr2)>>)] >>),
     JObj(<< [k |-> KeyDatacenter, v |-> JStr(Dc2)],
             [k |-> KeyRetryJoin, v |-> JArr(<<JStr(Addr2), JStr(Addr1)>>)] >>),
     JObj(<< [k |-> KeyDatacenter, v |-> JStr(Dc1)],
             [k |-> KeyRetryJoin, v |-> JArr(<<>>)] >>),
     JObj(<< [k |-> KeyDatacenter, v |-> JNum],
             [k |-> KeyRetryJoin, v |-> JArr(<<JStr(Addr1)>>)] >>),
     JObj(<< [k |-> KeyDatacenter, v |-> JStr(Dc1)],
             [k |-> KeyRetryJoin, v |-> JArr(<<JStr(Addr1), JNum>>)] >>),
     JObj(<< [k |-> KeyDatacenter, v |-> JStr(Dc1)] >>),
     JObj(<< [k |-> KeyDatacenter, v |-> JStr(Dc1)],
             [k |-> KeyRetryJoin, v |-> JNull] >>),
     JObj(<< [k |-> KeyDatacenter, v |-> JStr(Dc1)],
             [k |-> KeyRetryJoin, v |-> JArr(<<JNull, JStr(Addr1)>>)] >>),
     JObj(<< [k |-> <<"D","a","t","a","c","e","n","t","e","r">>, v |-> JStr(Dc2)],
             [k |-> <<"R","E","T","R","Y","_","J","O","I","N">>, v |-> JArr(<<JStr(Addr1)>>)] >>),
     JArr(<<JStr(Addr1)>>) >>

RGNames == {<<"r","g","1">>, <<"r","g","2">>}
AppNames == {<<"M","y","A","p","p">>, <<"h","c","s">>}
ClusterNames == {<<"a","k","s">>}
\* d.Get of the optional aks_resource_group is "" when it is not supplied.
AksRGs == {Nil, <<"r","g","2">>}

Inputs ==
  [resource_group_name : RGNames, managed_application_name : AppNames,
   aks_cluster_name : ClusterNames, aks_resource_group : AksRGs]

ZeroInput ==
  [resource_group_name |-> Nil, managed_application_name |-> Nil,
   aks_cluster_name |-> Nil, aks_resource_group |-> Nil]

AppIDs == {<<"/","a","p","p","1">>, <<"/","a","p","p","2">>}
ManagedRG == <<"/","m","r","g">>
Fqdns == {<<"k","8","s",".","i","o">>, <<"a",".","b">>}

ErrHTTP404 == <<"E","4","0","4">>
ErrHTTP500 == <<"E","5","0","0">>
ErrDial == <<"E","d","i","a","l">>
ErrSet == <<"E","s","e","t">>

\* What managedAppClient.Get returns: (app, err).  err is nil on a 200
\* response and on the 404 response line 106 tests for; a failed request
\* carries the status of its response, 0 when there was none.
ZeroApp == [err |-> Nil, status |-> 0, id |-> Nil, mrg |-> Nil]
AppResults ==
  {[err |-> Nil, status |-> 200, id |-> i, mrg |-> ManagedRG] : i \in AppIDs}
  \cup {[ZeroApp EXCEPT !.status = 404],
        [ZeroApp EXCEPT !.status = 404, !.err = ErrHTTP404],
        [ZeroApp EXCEPT !.status = 500, !.err = ErrHTTP500],
        [ZeroApp EXCEPT !.err = ErrDial]}

\* What crpClient.Config returns: (resp, err); payload indexes Payloads.
ZeroResp == [err |-> Nil, payload |-> 0]
CfgResults ==
  {[err |-> Nil, payload |-> p] : p \in DOMAIN Payloads}
  \cup {[ZeroResp EXCEPT !.err = ErrHTTP500]}

\* What mcClient.Get returns: (mcResp, err).
ZeroMc == [err |-> Nil, status |-> 0, fqdn |-> Nil]
McResults ==
  {[err |-> Nil, status |-> 200, fqdn |-> f] : f \in Fqdns}
  \cup {[ZeroMc EXCEPT !.status = 404],
        [ZeroMc EXCEPT !.status = 404, !.err = ErrHTTP404],
        [ZeroMc EXCEPT !.status = 500, !.err = ErrHTTP500],
        [ZeroMc EXCEPT !.err = ErrDial]}

\* What d.Set("config", ...) returns.
SetResults == {Nil, ErrSet}

Envs == [app : AppResults, cfg : CfgResults, mc : McResults, set : SetResults]

\* ------------------------------------------------------------ diagnostics
FmtAppLookupFailed ==
  << "failed to check for presence of existing HCS Cluster (Managed Application ",
     "%q", ") (Resource Group ", "%q", "): ", "%+v" >>
FmtAppNotFound ==
  << "[ERROR] no HCS Cluster found for (Managed Application ",
     "%q", ") (Resource Group ", "%q", ")." >>
FmtConfigFailed == << "failed to get config for managed app: ", "%+v" >>
FmtUnmarshalFailed == << "failed to json unmarshal Consul config ", "%v" >>
FmtMcLookupFailed ==
  << "failed to check for presence of existing AKS Cluster (Cluster name ",
     "%q", ") (Resource Group ", "%q", "): ", "%+v" >>
FmtMcNotFound ==
  << "[ERROR] no AKS Cluster found for (Cluster name ",
     "%q", ") (Resource Group ", "%q", ")." >>

\* diag.Errorf: one error diagnostic whose summary is the formatted text.
Errorf(format, args) == << [severity |-> "Error", summary |-> Sprintf(format, args)] >>

\* diag.FromErr of a non-nil error.
FromErr(err) == << [severity |-> "Error", summary |-> err] >>

\* ------------------------------------------------------------------ state
VARIABLES
  env,           \* what the three upstream clients and d.Set answer
  input,         \* the configuration fields d.Get reads
  pc,            \* "idle", "appGet", "config", "mcGet" or "done"
  app,           \* local app, err of line 102
  resp,          \* local resp, err of line 115
  consulConfig,  \* local consulConfig of line 120
  mcResp,        \* local mcResp, err of line 136
  dConfig,       \* the config attribute of d: <<>> unset, <<text>> set
  dId,           \* the id of d: <<>> unset, <<text>> set
  diags,         \* the diag.Diagnostics returned
  calls,         \* the calls issued by the running invocation, in order
  prev,          \* <<>>, or the input and outcome of the preceding
                 \* invocation: kept while env is unchanged and, once a
                 \* new invocation runs, only if its input is the same
  r              \* one call of generateHelmConfig: its inputs and result

vars == << env, input, pc, app, resp, consulConfig, mcResp, dConfig, dId,
           diags, calls, prev, r >>

readVars == << env, input, pc, app, resp, consulConfig, mcResp, dConfig, dId,
               diags, calls, prev >>

Outcome == [diags |-> diags, config |-> dConfig, id |-> dId]

\* ------------------------------------------------ steps of the read handler
\* Lines 103-109: the diagnostics of the managed application lookup.
AppLookupDiag_No404Check(res, managedAppName, resourceGroupName) ==
  IF res.err # Nil
    THEN Errorf(FmtAppLookupFailed, <<managedAppName, resourceGroupName, res.err>>)
  ELSE <<>>

AppLookupDiag(res, managedAppName, resourceGroupName) ==
  IF res.err # Nil
    THEN Errorf(FmtAppLookupFailed, <<managedAppName, resourceGroupName, res.err>>)
  ELSE IF res.status = 404
    THEN Errorf(FmtAppNotFound, <<managedAppName, resourceGroupName>>)
  ELSE <<>>

\* Lines 137-143: the diagnostics of the managed cluster lookup.
McLookupDiag(res, aksClusterName, aksResourceGroup) ==
  IF res.err # Nil
    THEN Errorf(FmtMcLookupFailed, <<aksClusterName, aksResourceGroup, res.err>>)
  ELSE IF res.status = 404
    THEN Errorf(FmtMcNotFound, <<aksClusterName, aksResourceGroup>>)
  ELSE <<>>

\* The override is dropped: the cluster is always looked up in the
\* managed application's resource group.
EffectiveAksResourceGroup_NoOverride(aksResourceGroup, resourceGroupName) ==
  resourceGroupName

\* Lines 127-130.
EffectiveAksResourceGroup(aksResourceGroup, resourceGroupName) ==
  IF aksResourceGroup = Nil THEN resourceGroupName ELSE aksResourceGroup

\* The attribute is written although the write reported an error.
DSet_WriteOnError(cur, value, err) == <<value>>

\* d.Set: the attribute after the call; a failed write leaves it alone.
DSet(cur, value, err) == IF err # Nil THEN cur ELSE <<value>>

\* The suffix is forgotten.
AgentHelmConfigID_NoSuffix(appID) == appID

\* The id carries the number of the read.
AgentHelmConfigID_Counted(appID) ==
  appID \o <<"/agent-helm-config">> \o (IF prev # <<>> THEN <<"#2">> ELSE <<>>)

\* Line 150: *app.ID + "/agent-helm-config"
AgentHelmConfigID(appID) == appID \o <<"/agent-helm-config">>

Call(op, args) == [op |-> op, args |-> args]

\* Lines 97-102: the handler is entered with a fresh resource data holding
\* the configuration, and issues the managed application lookup.
Start ==
  /\ pc = "idle"
  /\ \E i \in Inputs :
       /\ input' = i
       /\ prev' = IF prev # <<>> /\ prev[1].input = i THEN prev ELSE <<>>
       /\ calls' = << Call("ManagedApplication.Get",
                           <<i.resource_group_name, i.managed_application_name>>) >>
  /\ app' = ZeroApp
  /\ resp' = ZeroResp
  /\ consulConfig' = ZeroConsulConfig
  /\ mcResp' = ZeroMc
  /\ dConfig' = <<>>
  /\ dId' = <<>>
  /\ diags' = <<>>
  /\ pc' = "appGet"
  /\ UNCHANGED << env, r >>

\* Lines 102-115: the lookup returns; on success the config fetch is issued.
AppGetReturn ==
  /\ pc = "appGet"
  /\ app' = env.app
  /\ LET dg == AppLookupDiag(env.app, input.managed_application_name,
                             input.resource_group_name)
     IN IF dg # <<>>
          THEN /\ diags' = dg
               /\ pc' = "done"
               /\ calls' = calls
          ELSE /\ diags' = diags
               /\ pc' = "config"
               /\ calls' = Append(calls, Call("CustomResourceProvider.Config", <<env.app.mrg>>))
  /\ UNCHANGED << env, input, resp, consulConfig, mcResp, dConfig, dId,
                  prev, r >>

\* Lines 115-136: the config fetch returns; the payload is parsed, the AKS
\* resource group resolved and the managed cluster lookup issued.
ConfigReturn ==
  /\ pc = "config"
  /\ resp' = env.cfg
  /\ IF env.cfg.err # Nil
       THEN /\ diags' = Errorf(FmtConfigFailed, <<env.cfg.err>>)
            /\ pc' = "done"
            /\ UNCHANGED << consulConfig, calls >>
       ELSE LET u == Unmarshal(Payloads[env.cfg.payload])
            IN /\ consulConfig' = u.cfg
               /\ IF u.err # Nil
                    THEN /\ diags' = Errorf(FmtUnmarshalFailed, <<u.err>>)
                         /\ pc' = "done"
                         /\ calls' = calls
                    ELSE /\ diags' = diags
                         /\ pc' = "mcGet"
                         /\ calls' = Append(calls,
                              Call("ManagedClusters.Get",
                                   << EffectiveAksResourceGroup(input.aks_resource_group,
                                                                input.resource_group_name),
                                      input.aks_cluster_name >>))
  /\ UNCHANGED << env, input, app, mcResp, dConfig, dId, prev, r >>

\* Lines 136-152: the cluster lookup returns; the config is rendered and
\* stored, and the id set.
McGetReturn ==
  /\ pc = "mcGet"
  /\ mcResp' = env.mc
  /\ pc' = "done"
  /\ LET aksResourceGroup == calls[3].args[1]
         dg == McLookupDiag(env.mc, input.aks_cluster_name, aksResourceGroup)
         renderArgs == << input.managed_application_name, consulConfig.Datacenter,
                          env.mc.fqdn, consulConfig.RetryJoin >>
         text == generateHelmConfig(renderArgs[1], renderArgs[2], renderArgs[3], renderArgs[4])
     IN IF dg # <<>>
          THEN /\ diags' = dg
               /\ UNCHANGED << dConfig, dId, calls >>
          ELSE /\ calls' = Append(calls, Call("generateHelmConfig", renderArgs))
               /\ dConfig' = DSet(dConfig, text, env.set)
               /\ IF env.set # Nil
                    THEN /\ diags' = FromErr(env.set)
                         /\ dId' = dId
                    ELSE /\ diags' = diags
                         /\ dId' = <<AgentHelmConfigID(app.id)>>
  /\ UNCHANGED << env, input, app, resp, consulConfig, prev, r >>

\* Lines 104-152, the return statements: the handler hands its diagnostics
\* and the resource data to the caller and its locals are gone.
Return ==
  /\ pc = "done"
  /\ prev' = << [input |-> input, outcome |-> Outcome] >>
  /\ pc' = "idle"
  /\ input' = ZeroInput
  /\ app' = ZeroApp
  /\ resp' = ZeroResp
  /\ consulConfig' = ZeroConsulConfig
  /\ mcResp' = ZeroMc
  /\ dConfig' = <<>>
  /\ dId' = <<>>
  /\ diags' = <<>>
  /\ calls' = <<>>
  /\ UNCHANGED << env, r >>

\* Between two reads the upstream state (one directory entry, the config
\* payload, the behaviour of the resource data) changes.
EnvChange ==
  /\ pc = "idle"
  /\ env' \in ({[env EXCEPT !.app = x] : x \in AppResults}
               \cup {[env EXCEPT !.cfg = x] : x \in CfgResults}
               \cup {[env EXCEPT !.mc = x] : x \in McResults}
               \cup {[env EXCEPT !.set = x] : x \in SetResults}) \ {env}
  /\ prev' = <<>>
  /\ UNCHANGED << input, pc, app, resp, consulConfig, mcResp, dConfig, dId,
                  diags, calls, r >>

\* ------------------------------------------------ calls of the renderer
AddrChars == {"1", "'", "\"", "\\"}

RECURSIVE StringsUpTo(_, _)
StringsUpTo(chars, n) ==
  IF n = 0 THEN {<<>>}
  ELSE LET shorter == StringsUpTo(chars, n - 1)
       IN shorter \cup {Append(s, c) : s \in shorter, c \in chars}

Addresses == StringsUpTo(AddrChars, MaxAddrLen)
RenderNames == {<<"M","y","A","p","p">>, <<"h","c","s">>, <<"d","c","1">>, <<"H","C","S","-","2">>}
RenderDatacenters == {Dc1, Dc2}

Rendered(name, datacenter, fqdn, retryJoin) ==
  [name |-> name, datacenter |-> datacenter, fqdn |-> fqdn, retryJoin |-> retryJoin,
   out |-> generateHelmConfig(name, datacenter, fqdn, retryJoin)]

RenderInit == Rendered(<<"M","y","A","p","p">>, Dc1, <<"a",".","b">>, <<>>)

SetName ==
  /\ \E n \in RenderNames \ {r.name} :
       r' = Rendered(n, r.datacenter, r.fqdn, r.retryJoin)
  /\ UNCHANGED readVars

SetDatacenter ==
  /\ \E dc \in RenderDatacenters \ {r.datacenter} :
       r' = Rendered(r.name, dc, r.fqdn, r.retryJoin)
  /\ UNCHANGED readVars

SetFqdn ==
  /\ \E f \in Fqdns \ {r.fqdn} :
       r' = Rendered(r.name, r.datacenter, f, r.retryJoin)
  /\ UNCHANGED readVars

AddJoin ==
  /\ Len(r.retryJoin) < MaxJoin
  /\ \E a \in Addresses :
       r' = Rendered(r.name, r.datacenter, r.fqdn, Append(r.retryJoin, a))
  /\ UNCHANGED readVars

DropJoin ==
  /\ r.retryJoin # <<>>
  /\ r' = Rendered(r.name, r.datacenter, r.fqdn, Tail(r.retryJoin))
  /\ UNCHANGED readVars

\* ---------------------------------------------------------- specifications
ReadInit ==
  /\ input = ZeroInput
  /\ pc = "idle"
  /\ app = ZeroApp
  /\ resp = ZeroResp
  /\ consulConfig = ZeroConsulConfig
  /\ mcResp = ZeroMc
  /\ dConfig = <<>>
  /\ dId = <<>>
  /\ diags = <<>>
  /\ calls = <<>>
  /\ prev = <<>>

Init ==
  /\ env \in Envs
  /\ ReadInit
  /\ r = RenderInit

Next == Start \/ AppGetReturn \/ ConfigReturn \/ McGetReturn \/ Return \/ EnvChange

Spec == Init /\ [][Next]_vars

InitRender ==
  /\ env = [app |-> ZeroApp, cfg |-> ZeroResp, mc |-> ZeroMc, set |-> Nil]
  /\ ReadInit
  /\ \E n \in RenderNames, dc \in RenderDatacenters, f \in Fqdns :
       r = Rendered(n, dc, f, <<>>)

NextRender == SetName \/ SetDatacenter \/ SetFqdn \/ AddJoin \/ DropJoin

SpecRender == InitRender /\ [][NextRender]_vars

\* ------------------------------------------------------------- properties
\* The position of a literal piece of the template in a rendered text.
Pos(text, piece) == CHOOSE i \in DOMAIN text : text[i] = piece

\* What a rendered text holds between two literal pieces of the template.
Between(text, a, b) == SubSeq(text, Pos(text, a) + 1, Pos(text, b) - 1)

HostsField(text) == Between(text, TplHosts, TplK8sHost)
JoinField(text) == Between(text, TplJoin, TplEnd)

SecretNames(text) ==
  << Between(text, TplBootstrap, TplGossip),
     Between(text, TplGossip, TplCaCert),
     Between(text, TplCaCert, TplHosts) >>

SecretSites(text) ==
  {i \in DOMAIN text : text[i] \in {TplBootstrap, TplGossip, TplCaCert}}

\* l is s with every upper-case letter replaced by its lower-case letter.
IsLowercaseOf(l, s) ==
  /\ Len(l) = Len(s)
  /\ \A i \in DOMAIN s :
       IF \E j \in DOMAIN Uppers : Uppers[j] = s[i]
         THEN \E j \in DOMAIN Uppers : Uppers[j] = s[i] /\ Lowers[j] = l[i]
         ELSE l[i] = s[i]

SingleQuoted(a) == ReplaceAll(Quote(a), "\"", "'")

RECURSIVE CommaSeparated(_)
CommaSeparated(list) ==
  IF list = <<>> THEN <<>>
  ELSE IF Len(list) = 1 THEN SingleQuoted(list[1])
  ELSE SingleQuoted(Head(list)) \o <<",", " ">> \o CommaSeparated(Tail(list))

\* x occurs in text.
Contains(text, x) ==
  \E i \in 1..(Len(text) - Len(x) + 1) : SubSeq(text, i, i + Len(x) - 1) = x

IsNotFound(dg) == Head(dg.summary) \in {FmtAppNotFound[1], FmtMcNotFound[1]}
IsTransport(dg) ==
  Head(dg.summary) \in {FmtAppLookupFailed[1], FmtConfigFailed[1], FmtMcLookupFailed[1]}
IsMalformed(dg) == Head(dg.summary) = FmtUnmarshalFailed[1]

HasMember(doc, key, types) ==
  \E i \in DOMAIN doc.members : doc.members[i].k = key /\ doc.members[i].v.t \in types

Member(doc, key) ==
  doc.members[CHOOSE i \in DOMAIN doc.members :
                /\ doc.members[i].k = key
                /\ \A j \in DOMAIN doc.members : doc.members[j].k = key => j <= i].v

\* The payload is a JSON object with a string datacenter and an
\* array-of-strings retry_join.
WellShaped(doc) ==
  /\ doc.t = "obj"
  /\ HasMember(doc, KeyDatacenter, {"str"})
  /\ HasMember(doc, KeyRetryJoin, {"arr"})
  /\ Member(doc, KeyDatacenter).t = "str"
  /\ Member(doc, KeyRetryJoin).t = "arr"
  /\ \A i \in DOMAIN Member(doc, KeyRetryJoin).elems :
       Member(doc, KeyRetryJoin).elems[i].t = "str"

ShapeOf(doc) ==
  [Datacenter |-> Member(doc, KeyDatacenter).s,
   RetryJoin |-> [i \in DOMAIN Member(doc, KeyRetryJoin).elems |->
                    Member(doc, KeyRetryJoin).elems[i].s]]

Succeeded == pc = "done" /\ diags = <<>>
Failed == pc = "done" /\ diags # <<>>

\* C1: a join list of two or more addresses is rendered, for hosts and for
\* join, as the addresses in single quotes separated by a comma and a space,
\* between brackets.
C1_ListCommaSeparated ==
  Len(r.retryJoin) >= 2 =>
    /\ HostsField(r.out) = <<"[">> \o CommaSeparated(r.retryJoin) \o <<"]">>
    /\ JoinField(r.out) = <<"[">> \o CommaSeparated(r.retryJoin) \o <<"]">>

\* C2: a lookup (managed application, managed cluster) whose response has
\* status 404 ends the read in a NotFound failure naming the resource group
\* and the application or cluster, with or without an error value; any other
\* lookup failure ends it in a Transport failure.
C2_NotFoundOn404 ==
  /\ pc = "done" /\ Len(calls) = 1 =>
       /\ app.status = 404 =>
            /\ diags # <<>>
            /\ IsNotFound(diags[1])
            /\ Contains(diags[1].summary, input.resource_group_name)
            /\ Contains(diags[1].summary, input.managed_application_name)
       /\ app.status # 404 => diags # <<>> /\ IsTransport(diags[1])
  /\ pc = "done" /\ Len(calls) = 3 =>
       /\ mcResp.status = 404 =>
            /\ diags # <<>>
            /\ IsNotFound(diags[1])
            /\ Contains(diags[1].summary, calls[3].args[1])
            /\ Contains(diags[1].summary, input.aks_cluster_name)
       /\ mcResp.status # 404 => diags # <<>> /\ IsTransport(diags[1])

C4_EffectiveAksGroup ==
  Len(calls) >= 3 =>
    /\ calls[3].op = "ManagedClusters.Get"
    /\ calls[3].args[1] = (IF input.aks_resource_group # Nil
                             THEN input.aks_resource_group
                             ELSE input.resource_group_name)
    /\ calls[3].args[2] = input.aks_cluster_name

\* The lookup was issued with an override that differs from the resource
\* group of the managed application.
C4_Witness ==
  /\ Len(calls) >= 3
  /\ input.aks_resource_group # Nil
  /\ input.aks_resource_group # input.resource_group_name

\* C5: the rendered text has exactly three secret names, all three prefixed
\* by the lower-cased application name, whatever the datacenter, the FQDN
\* and the join list are.
C5_SecretPrefix ==
  r.name # <<>> =>
    /\ Cardinality(SecretSites(r.out)) = 3
    /\ \A k \in 1..3 : IsLowercaseOf(SecretNames(r.out)[k], r.name)

\* A name with upper-case letters was rendered with a datacenter, an FQDN
\* and a join list other than the first ones.
C5_Witness ==
  /\ r.name = <<"H","C","S","-","2">>
  /\ r.datacenter = Dc2
  /\ Len(r.retryJoin) = 2
  /\ SecretNames(r.out)[3] = <<"h","c","s","-","2">>

\* C6: after a successful read config is generateHelmConfig of the
\* application name, the datacenter and the join list of the payload in
\* their order, and the FQDN of the cluster lookup; the id is the id of the
\* managed application followed by /agent-helm-config.
C6_ConfigAndId ==
  Succeeded =>
    /\ dConfig = << generateHelmConfig(input.managed_application_name,
                                       consulConfig.Datacenter, mcResp.fqdn,
                                       consulConfig.RetryJoin) >>
    /\ WellShaped(Payloads[resp.payload]) => consulConfig = ShapeOf(Payloads[resp.payload])
    /\ mcResp = env.mc /\ mcResp.fqdn \in Fqdns
    /\ app = env.app /\ app.id \in AppIDs
    /\ dId = << app.id \o <<"/agent-helm-config">> >>

\* A read succeeded on a payload with two join addresses.
C6_Witness ==
  /\ Succeeded
  /\ WellShaped(Payloads[resp.payload])
  /\ consulConfig.RetryJoin = <<Addr2, Addr1>>

\* C7: a payload that is not an object with a string datacenter and an
\* array-of-strings retry_join ends the read in a MalformedUpstreamData
\* failure, with no cluster lookup and no rendering.
C7_IllShapedIsMalformed ==
  (pc \in {"mcGet", "done"} /\ resp.payload # 0 /\ ~WellShaped(Payloads[resp.payload])) =>
    /\ pc = "done"
    /\ diags # <<>>
    /\ IsMalformed(diags[1])
    /\ Len(calls) = 2

\* C8: the diagnostic of a failed application lookup, config fetch or JSON
\* parse names the resource group and the managed application, that of a
\* failed cluster lookup the resource group and the cluster.
C8_DiagnosticNamesObject ==
  /\ Failed /\ Len(calls) <= 2 =>
       /\ Contains(diags[1].summary, input.resource_group_name)
       /\ Contains(diags[1].summary, input.managed_application_name)
  /\ Failed /\ Len(calls) = 3 =>
       /\ Contains(diags[1].summary, calls[3].args[1])
       /\ Contains(diags[1].summary, input.aks_cluster_name)

CallOrder ==
  << "ManagedApplication.Get", "CustomResourceProvider.Config",
     "ManagedClusters.Get", "generateHelmConfig" >>

\* C10: the upstream calls are issued in the order application lookup,
\* config fetch, cluster lookup, each at most once, each after the one
\* before has returned without a failure (the JSON parse included).
C10_CallOrder ==
  /\ Len(calls) <= 4
  /\ \A i \in DOMAIN calls : calls[i].op = CallOrder[i]
  /\ pc = "idle" => calls = <<>>
  /\ pc = "appGet" => Len(calls) = 1
  /\ pc = "config" => Len(calls) = 2
  /\ pc = "mcGet" => Len(calls) = 3
  /\ Len(calls) >= 2 => app \in AppResults /\ app.err = Nil /\ app.status # 404
  /\ Len(calls) >= 3 =>
       /\ resp \in CfgResults
       /\ resp.err = Nil
       /\ Unmarshal(Payloads[resp.payload]).err = Nil
  /\ Len(calls) = 4 => mcResp \in McResults /\ mcResp.err = Nil /\ mcResp.status # 404
  /\ Failed /\ app.err # Nil => Len(calls) = 1
  /\ Failed /\ Len(calls) >= 2 /\ resp.err # Nil => Len(calls) = 2

\* The read stopped after a failed config fetch.
C10_Witness == Failed /\ Len(calls) = 2 /\ resp.err # Nil

====
